---- MODULE Spec2Model ----
(***************************************************************************)
(* A model of the AWS Knowledge MCP relay (src/app.py):                    *)
(*   - format_content, the response normaliser, with json.loads and        *)
(*     json.dumps(indent=2) modelled on token sequences;                   *)
(*   - AWSClientContext, the per-invocation connection scope built on an   *)
(*     AsyncExitStack;                                                     *)
(*   - the five tool handlers and their argument mapping.                  *)
(***************************************************************************)
EXTENDS Integers, Sequences, FiniteSets, TLC

(***************************************************************************)
(* Python values.  A str is a sequence of tokens (its characters, grouped  *)
(* into JSON lexemes); None, lists and dicts are tagged records.  A dict   *)
(* is the sequence of its items in insertion order, keys unique.           *)
(***************************************************************************)
Tok(k, v) == [k |-> k, v |-> v]

LBrace == Tok("p", "{")

RBrace == Tok("p", "}")

LBrack == Tok("p", "[")

RBrack == Tok("p", "]")

Colon == Tok("p", ":")

Comma == Tok("p", ",")

Space == Tok("ws", " ")

Newline == Tok("ws", "\n")

NullLit == Tok("lit", "null")

StrLit(s) == Tok("str", s)

NumLit(d) == Tok("num", d)

Word(w) == Tok("raw", w)

JNull == [t |-> "null"]

JNum(n) == [t |-> "num", n |-> n]

JStr(s) == [t |-> "str", s |-> s]

JArr(a) == [t |-> "arr", a |-> a]

JObj(o) == [t |-> "obj", o |-> o]

Item(k, v) == [k |-> k, v |-> v]

\* isinstance(v, dict), isinstance(v, list), isinstance(v, str), v is None
IsDict(v) == v.t = "obj"

IsList(v) == v.t = "arr"

IsNone(v) == v.t = "null"

\* the decimal digits: the text of an int and the int of a text
Digits == <<"0", "1", "2", "3", "4", "5", "6", "7", "8", "9">>

IntToText(n) == Digits[n + 1]

TextToInt(d) == CHOOSE n \in 0..9 : Digits[n + 1] = d

(***************************************************************************)
(* dict operations: key in d, d.get(key), d.pop(key, None), d[key] = v     *)
(***************************************************************************)
HasKey(d, key) == \E j \in 1..Len(d.o) : d.o[j].k = key

DictGet(d, key) ==
    IF HasKey(d, key)
    THEN d.o[CHOOSE j \in 1..Len(d.o) : d.o[j].k = key].v
    ELSE JNull

DictPop(d, key) == JObj(SelectSeq(d.o, LAMBDA it : it.k # key))

DictSet(d, key, v) ==
    IF HasKey(d, key)
    THEN JObj([j \in 1..Len(d.o) |-> IF d.o[j].k = key THEN Item(key, v) ELSE d.o[j]])
    ELSE JObj(Append(d.o, Item(key, v)))

(***************************************************************************)
(* json.loads on a str: whitespace is skipped before and after every       *)
(* value and separator, a value is null, an int, a string, an array or an  *)
(* object, and anything left after the value is a JSONDecodeError.  A      *)
(* repeated key keeps its first position and its last value, as dict()     *)
(* does.                                                                   *)
(***************************************************************************)
PyText(toks) == [t |-> "text", toks |-> toks]

IsStr(v) == v.t = "text"

At(toks, p) == IF p \in 1..Len(toks) THEN toks[p] ELSE Tok("eof", "")

RECURSIVE SkipWs(_, _)
SkipWs(toks, p) == IF At(toks, p).k = "ws" THEN SkipWs(toks, p + 1) ELSE p

Raised(e) == [ok |-> FALSE, exc |-> e, val |-> JNull, pos |-> 0]

Parsed(v, p) == [ok |-> TRUE, exc |-> "", val |-> v, pos |-> p]

RECURSIVE ParseValue(_, _), ParseElems(_, _, _), ParseMembers(_, _, _)
ParseValue(toks, p) ==
    LET c == At(toks, p) IN
    CASE c = NullLit -> Parsed(JNull, p + 1)
      [] c.k = "num" -> Parsed(JNum(TextToInt(c.v)), p + 1)
      [] c.k = "str" -> Parsed(JStr(c.v), p + 1)
      [] c = LBrack ->
            LET q == SkipWs(toks, p + 1) IN
            IF At(toks, q) = RBrack THEN Parsed(JArr(<<>>), q + 1)
            ELSE ParseElems(toks, q, <<>>)
      [] c = LBrace ->
            LET q == SkipWs(toks, p + 1) IN
            IF At(toks, q) = RBrace THEN Parsed(JObj(<<>>), q + 1)
            ELSE ParseMembers(toks, q, JObj(<<>>))
      [] OTHER -> Raised("JSONDecodeError")

ParseElems(toks, p, acc) ==
    LET r == ParseValue(toks, p) IN
    IF ~r.ok THEN r
    ELSE LET q == SkipWs(toks, r.pos) IN
         CASE At(toks, q) = Comma ->
                ParseElems(toks, SkipWs(toks, q + 1), Append(acc, r.val))
           [] At(toks, q) = RBrack -> Parsed(JArr(Append(acc, r.val)), q + 1)
           [] OTHER -> Raised("JSONDecodeError")

ParseMembers(toks, p, d) ==
    IF At(toks, p).k # "str" THEN Raised("JSONDecodeError")
    ELSE LET key == At(toks, p).v
             q == SkipWs(toks, p + 1)
         IN
         IF At(toks, q) # Colon THEN Raised("JSONDecodeError")
         ELSE LET r == ParseValue(toks, SkipWs(toks, q + 1)) IN
              IF ~r.ok THEN r
              ELSE LET q2 == SkipWs(toks, r.pos) IN
                   CASE At(toks, q2) = Comma ->
                          ParseMembers(toks, SkipWs(toks, q2 + 1), DictSet(d, key, r.val))
                     [] At(toks, q2) = RBrace -> Parsed(DictSet(d, key, r.val), q2 + 1)
                     [] OTHER -> Raised("JSONDecodeError")

json_loads(s) ==
    IF ~IsStr(s) THEN Raised("TypeError")
    ELSE LET r == ParseValue(s.toks, SkipWs(s.toks, 1)) IN
         IF r.ok /\ SkipWs(s.toks, r.pos) # Len(s.toks) + 1
         THEN Raised("JSONDecodeError")
         ELSE r

(***************************************************************************)
(* json.dumps(v, indent=2): an empty container is "[]" or "{}"; the items  *)
(* of a non-empty one stand on lines of their own, indented by two spaces  *)
(* per level and separated by ",", a key and its value by ": ".            *)
(***************************************************************************)
RECURSIVE Indent(_)
Indent(lvl) == IF lvl = 0 THEN <<>> ELSE <<Space, Space>> \o Indent(lvl - 1)

RECURSIVE Dumps(_, _), DumpElems(_, _, _), DumpItems(_, _, _)
Dumps(v, lvl) ==
    CASE v.t = "null" -> <<NullLit>>
      [] v.t = "num" -> <<NumLit(IntToText(v.n))>>
      [] v.t = "str" -> <<StrLit(v.s)>>
      [] v.t = "arr" ->
            IF v.a = <<>> THEN <<LBrack, RBrack>>
            ELSE <<LBrack>> \o DumpElems(v.a, 1, lvl + 1)
                 \o <<Newline>> \o Indent(lvl) \o <<RBrack>>
      [] v.t = "obj" ->
            IF v.o = <<>> THEN <<LBrace, RBrace>>
            ELSE <<LBrace>> \o DumpItems(v.o, 1, lvl + 1)
                 \o <<Newline>> \o Indent(lvl) \o <<RBrace>>

DumpElems(a, j, lvl) ==
    IF j > Len(a) THEN <<>>
    ELSE (IF j > 1 THEN <<Comma>> ELSE <<>>)
         \o <<Newline>> \o Indent(lvl) \o Dumps(a[j], lvl)
         \o DumpElems(a, j + 1, lvl)

DumpItems(o, j, lvl) ==
    IF j > Len(o) THEN <<>>
    ELSE (IF j > 1 THEN <<Comma>> ELSE <<>>)
         \o <<Newline>> \o Indent(lvl) \o <<StrLit(o[j].k), Colon, Space>>
         \o Dumps(o[j].v, lvl)
         \o DumpItems(o, j + 1, lvl)

json_dumps(v) == PyText(Dumps(v, 0))

(***************************************************************************)
(* format_content.  A content block is [type, text]; text is a str or,     *)
(* for a malformed block, None.  A call returns a value or raises.         *)
(***************************************************************************)
Block(type, text) == [type |-> type, text |-> text]

Returns(v) == [ok |-> TRUE, exc |-> "", val |-> v]

Raises(e) == [ok |-> FALSE, exc |-> e, val |-> JNull]

\* line 22: the parsed value is a dict whose "content" is a dict
HasContentDict(parsed) ==
    IsDict(parsed) /\ HasKey(parsed, "content") /\ IsDict(DictGet(parsed, "content"))

\* line 23: parsed["content"].get("result")
ResultOf(parsed) == DictGet(DictGet(parsed, "content"), "result")

\* mutant: the key is popped whatever its value
PopAlways(d, key) == DictPop(d, key)

\* lines 28-29 and 30-31: d.get(key) is None, then d.pop(key, None)
PopIfNone(d, key) == IF IsNone(DictGet(d, key)) THEN DictPop(d, key) ELSE d

StripNulls(d) == PopIfNone(PopIfNone(d, "next_token"), "failed_regions")

\* mutant: line 24 does not test that result is a dict
UnwrapAnyResult(parsed) ==
    IF HasContentDict(parsed)
    THEN LET result == ResultOf(parsed) IN
         IF IsDict(result) THEN StripNulls(result) ELSE result
    ELSE parsed

\* mutant: the unwrap of lines 22-25 is applied to the elements of a list
UnwrapInList(parsed) ==
    LET one(v) == IF HasContentDict(v)
                  THEN LET result == ResultOf(v) IN
                       IF IsDict(result) THEN StripNulls(result) ELSE v
                  ELSE v
    IN IF IsList(parsed) THEN JArr([k \in 1..Len(parsed.a) |-> one(parsed.a[k])])
       ELSE one(parsed)

\* mutant: the unwrap of lines 22-25 is applied again to the result object
UnwrapTwice(parsed) ==
    LET one(v) == IF HasContentDict(v)
                  THEN LET result == ResultOf(v) IN
                       IF IsDict(result) THEN StripNulls(result) ELSE v
                  ELSE v
    IN one(one(parsed))

\* lines 22-31: the value that line 33 renders
Unwrap(parsed) ==
    IF HasContentDict(parsed)
    THEN LET result == ResultOf(parsed) IN
         IF IsDict(result) THEN StripNulls(result) ELSE parsed
    ELSE parsed

\* mutant: the payload is appended as received, line 33 does not render it
RenderTextVerbatim(c) == c.text

\* lines 17-35: what one text block appends to formatted_texts
RenderText(c) ==
    LET r == json_loads(c.text) IN
    IF r.ok THEN json_dumps(Unwrap(r.val)) ELSE c.text

\* mutant: a block that is not text appends an empty str
AppendBlockBlank(texts, c) ==
    IF c.type = "text" THEN Append(texts, RenderText(c)) ELSE Append(texts, PyText(<<>>))

\* lines 15-35: one iteration of the loop
AppendBlock(texts, c) == IF c.type = "text" THEN Append(texts, RenderText(c)) ELSE texts

RECURSIVE JoinToks(_, _)
JoinToks(texts, j) ==
    IF j > Len(texts) THEN <<>>
    ELSE (IF j > 1 THEN <<Newline>> ELSE <<>>) \o texts[j].toks \o JoinToks(texts, j + 1)

\* line 36: "\n".join(formatted_texts), a TypeError when an item is not a str
StrJoin(texts) ==
    IF \E j \in 1..Len(texts) : ~IsStr(texts[j]) THEN Raises("TypeError")
    ELSE Returns(PyText(JoinToks(texts, 1)))

RECURSIVE FormattedTexts(_, _, _)
FormattedTexts(content, j, texts) ==
    IF j > Len(content) THEN texts
    ELSE FormattedTexts(content, j + 1, AppendBlock(texts, content[j]))

format_content(content) == StrJoin(FormattedTexts(content, 1, <<>>))

(***************************************************************************)
(* The tool handlers and the connection scope.                             *)
(***************************************************************************)
\* the number of invocations the dispatcher has in flight
NumInv == 2

Inv == 1..NumInv

Tools == {"search_documentation", "read_documentation", "recommend",
          "list_regions", "get_regional_availability"}

\* lines 84, 99, 109, 119, 144: the upstream call's name
CallName(t) ==
    CASE t = "search_documentation" -> "aws___search_documentation"
      [] t = "read_documentation" -> "aws___read_documentation"
      [] t = "recommend" -> "aws___recommend"
      [] t = "list_regions" -> "aws___list_regions"
      [] t = "get_regional_availability" -> "aws___get_regional_availability"

\* lines 87, 102, 112, 122, 147: the label of the handler's error string
ErrorLabel(t) ==
    CASE t = "search_documentation" -> "Error searching documentation: "
      [] t = "read_documentation" -> "Error reading documentation: "
      [] t = "recommend" -> "Error getting recommendations: "
      [] t = "list_regions" -> "Error listing regions: "
      [] t = "get_regional_availability" -> "Error checking availability: "

\* an exception: its class, its error code (McpError only) and str(e)
Exc(cls, code, msg) == [cls |-> cls, code |-> code, msg |-> msg]

NoExc == Exc("none", "", <<>>)

\* CancelledError derives from BaseException: "except Exception" lets it pass
CancelledError == Exc("CancelledError", "", <<>>)

\* the failure an I/O operation of the transport or the session raises
IOError(op) == Exc("Exception", "", <<Word(op), Word(" failed")>>)

\* line 68
ConnectionError(e) ==
    Exc("McpError", "INTERNAL_ERROR", <<Word("Connection Error: ")>> \o e.msg)

\* lines 87, 102, 112, 122, 147
ErrorString(t, e) == PyText(<<Word(ErrorLabel(t))>> \o e.msg)

TypeError == Exc("TypeError", "", <<Word("expected str instance, NoneType found")>>)

\* the way an invocation ends, as the dispatcher sees it
Pending == [kind |-> "pending", val |-> PyText(<<>>), exc |-> NoExc]

Returned(v) == [kind |-> "returned", val |-> v, exc |-> NoExc]

RaisedOut(e) == [kind |-> "raised", val |-> PyText(<<>>), exc |-> e]

\* the resources an AsyncExitStack holds
Transport == [kind |-> "transport", id |-> 0]

Session(n) == [kind |-> "session", id |-> n]

\* the answers of the transport to an awaited operation; "cancel" is the
\* cancellation of the invocation while it is suspended there
Answers == {"ok", "fail", "cancel"}

\* what the upstream may send back: the list_regions example of the
\* service, and a malformed text block
Responses ==
    << <<Block("text", PyText(<<LBrace, StrLit("content"), Colon, LBrace,
                                StrLit("result"), Colon, LBrace, StrLit("regions"),
                                Colon, LBrack, StrLit("us-east-1"), RBrack,
                                RBrace, RBrace, RBrace>>))>>,
       <<Block("text", JNull)>> >>

VARIABLES
    pc,           \* where each invocation is suspended
    tool,         \* the handler the dispatcher selected
    stack,        \* the exit callbacks of each AsyncExitStack, last pushed last
    session,      \* the handler's local "session" (0: unbound)
    opened,       \* history: the resources each invocation opened, in order
    closed,       \* history: the resources each invocation closed, in order
    log,          \* history: the awaited operations and their answers
    calls,        \* history: the upstream calls each invocation issued
    cause,        \* the exception in flight (caught at line 65, or leaving the body)
    ret,          \* the value the handler body returned
    closeExc,     \* the exception aclose() will raise when it is done
    outcome,      \* how the invocation ended
    nextSession   \* ClientSession objects created so far

lifeVars == <<pc, tool, stack, session, opened, closed, log, calls, cause, ret,
              closeExc, outcome, nextSession>>

\* format_content, run on its own
VARIABLES
    fcContent,    \* the argument of format_content
    fcIdx,        \* the block the loop of line 15 is at
    fcTexts,      \* formatted_texts
    fcPc,         \* "idle", "loop", "returned" or "raised"
    fcResult      \* what format_content returned or raised

fmtVars == <<fcContent, fcIdx, fcTexts, fcPc, fcResult>>

\* the argument mapping, run on its own
VARIABLES
    argIn,        \* the caller's arguments [resource_type, region, filters]
    argPc,        \* "idle", "mapping" or "mapped"
    argOut        \* the argument set passed to call_tool

argVars == <<argIn, argPc, argOut>>

otherVars == <<fmtVars, argVars>>

\* mutant: one AsyncExitStack shared by every AWSClientContext (a class attribute)
SharedStack(i) == 1

\* lines 50-51: every AWSClientContext has an AsyncExitStack of its own
StackOf(i) == i

\* mutant: the session object is taken from a pool of one
PooledSession(n) == 1

\* line 61: ClientSession(read, write) is a new object
NewSession(n) == n + 1

\* an awaited operation and its answer; n is the response a call returned
Op(op, ans) == [op |-> op, ans |-> ans, n |-> 0]

CallOk(n) == [op |-> "call", ans |-> "ok", n |-> n]

\* AsyncExitStack.aclose() is done: what leaves the scope.  From line 66 the
\* McpError of line 68 follows unless aclose() raised; from line 71 the
\* exception of aclose(), else the body's exception, else the body's value.
Final(phase, cexc, e, r) ==
    IF cexc # NoExc THEN RaisedOut(cexc)
    ELSE IF phase = "acq_close" THEN RaisedOut(ConnectionError(e))
    ELSE IF e # NoExc THEN RaisedOut(e)
    ELSE Returned(r)

\* aclose() with the exit callbacks stk left: suspended in the next close,
\* or done when none is left
Closing(i, phase, stk, cexc, e, r) ==
    /\ pc' = [pc EXCEPT ![i] = IF stk = <<>> THEN "done" ELSE phase]
    /\ outcome' = [outcome EXCEPT ![i] =
                      IF stk = <<>> THEN Final(phase, cexc, e, r) ELSE Pending]
    /\ closeExc' = [closeExc EXCEPT ![i] = cexc]
    /\ cause' = [cause EXCEPT ![i] = e]
    /\ ret' = [ret EXCEPT ![i] = r]

\* mutant: the except clause raises the McpError without closing the stack
AcquireFailedNoClose(i, e) ==
    /\ pc' = [pc EXCEPT ![i] = "done"]
    /\ outcome' = [outcome EXCEPT ![i] = RaisedOut(ConnectionError(e))]
    /\ cause' = [cause EXCEPT ![i] = e]
    /\ UNCHANGED <<stack, closed, closeExc, ret>>

\* mutant: the except clause starts the acquisition again after its first
\* failure instead of closing the stack and raising
AcquireFailedRetry(i, e) ==
    IF \A k \in 1..Len(log[i]) : log[i][k].ans # "fail"
    THEN /\ pc' = [pc EXCEPT ![i] = "connect"]
         /\ UNCHANGED <<stack, closed, closeExc, cause, ret, outcome>>
    ELSE /\ Closing(i, "acq_close", stack[StackOf(i)], NoExc, e, PyText(<<>>))
         /\ UNCHANGED <<stack, closed>>

\* lines 65-68: an Exception of the acquisition is caught and the stack closed
AcquireFailed(i, e) ==
    /\ Closing(i, "acq_close", stack[StackOf(i)], NoExc, e, PyText(<<>>))
    /\ UNCHANGED <<stack, closed>>

\* a CancelledError raised inside __aenter__ passes line 65 and leaves the
\* "async with" statement: __aexit__ is not called
AcquireCancelled(i) ==
    /\ pc' = [pc EXCEPT ![i] = "done"]
    /\ outcome' = [outcome EXCEPT ![i] = RaisedOut(CancelledError)]
    /\ UNCHANGED <<stack, closed, closeExc, cause, ret>>

\* lines 70-71: the body is left with the value r or the exception e
ExitScope(i, e, r) ==
    /\ Closing(i, "exit_close", stack[StackOf(i)], NoExc, e, r)
    /\ UNCHANGED <<stack, closed>>

Push(i, res) == [stack EXCEPT ![StackOf(i)] = Append(@, res)]

Logged(i, op, ans) == [log EXCEPT ![i] = Append(@, Op(op, ans))]

\* lines 78, 92, 107, 117, 127: the dispatcher calls a handler, which builds an
\* AWSClientContext and enters it
Invoke(i) ==
    /\ pc[i] = "idle"
    /\ \E t \in Tools : tool' = [tool EXCEPT ![i] = t]
    /\ pc' = [pc EXCEPT ![i] = "connect"]
    /\ UNCHANGED <<stack, session, opened, closed, log, calls, cause, ret,
                   closeExc, outcome, nextSession>>
    /\ UNCHANGED otherVars

\* lines 55-59: await stack.enter_async_context(streamable_http_client(url))
Connect(i) ==
    /\ pc[i] = "connect"
    /\ \E a \in Answers :
        /\ log' = Logged(i, "connect", a)
        /\ \/ /\ a = "ok"
              /\ stack' = Push(i, Transport)
              /\ opened' = [opened EXCEPT ![i] = Append(@, Transport)]
              /\ pc' = [pc EXCEPT ![i] = "session"]
              /\ UNCHANGED <<closed, cause, ret, closeExc, outcome>>
           \/ /\ a = "fail"
              /\ AcquireFailed(i, IOError("connect"))
              /\ UNCHANGED opened
           \/ /\ a = "cancel"
              /\ AcquireCancelled(i)
              /\ UNCHANGED opened
    /\ UNCHANGED <<tool, session, calls, nextSession>>
    /\ UNCHANGED otherVars

\* mutant: the session is used as soon as it is entered, without the handshake
EnterSessionNoHandshake(i) ==
    /\ pc[i] = "session"
    /\ LET s == Session(nextSession + 1) IN
       /\ stack' = [stack EXCEPT ![i] = Append(@, s)]
       /\ opened' = [opened EXCEPT ![i] = Append(@, s)]
       /\ session' = [session EXCEPT ![i] = s.id]
    /\ nextSession' = nextSession + 1
    /\ pc' = [pc EXCEPT ![i] = "call"]
    /\ calls' = [calls EXCEPT ![i] = @ + 1]
    /\ log' = [log EXCEPT ![i] = @ \o <<Op("session", "ok"), Op("call", "issued")>>]
    /\ UNCHANGED <<tool, closed, cause, ret, closeExc, outcome>>
    /\ UNCHANGED otherVars

\* lines 60-62: session = await stack.enter_async_context(ClientSession(read, write))
EnterSession(i) ==
    /\ pc[i] = "session"
    /\ \E a \in Answers :
        /\ log' = Logged(i, "session", a)
        /\ \/ /\ a = "ok"
              /\ LET s == Session(NewSession(nextSession)) IN
                 /\ stack' = Push(i, s)
                 /\ opened' = [opened EXCEPT ![i] = Append(@, s)]
                 /\ session' = [session EXCEPT ![i] = s.id]
              /\ nextSession' = nextSession + 1
              /\ pc' = [pc EXCEPT ![i] = "initialize"]
              /\ UNCHANGED <<closed, cause, ret, closeExc, outcome>>
           \/ /\ a = "fail"
              /\ AcquireFailed(i, IOError("session"))
              /\ UNCHANGED <<opened, session, nextSession>>
           \/ /\ a = "cancel"
              /\ AcquireCancelled(i)
              /\ UNCHANGED <<opened, session, nextSession>>
    /\ UNCHANGED <<tool, calls>>
    /\ UNCHANGED otherVars

\* the handler body is entered with the session: it builds the arguments and
\* awaits session.call_tool (lines 79-84, 93-99, 108-109, 118-119, 128-144)
IssueCall(i) ==
    /\ pc' = [pc EXCEPT ![i] = "call"]
    /\ calls' = [calls EXCEPT ![i] = @ + 1]
    /\ log' = [log EXCEPT ![i] = @ \o <<Op("initialize", "ok"), Op("call", "issued")>>]
    /\ UNCHANGED <<stack, closed, cause, ret, closeExc, outcome>>

\* lines 63-64: await session.initialize(), return session
Initialize(i) ==
    /\ pc[i] = "initialize"
    /\ \E a \in Answers :
        \/ /\ a = "ok"
           /\ IssueCall(i)
        \/ /\ a = "fail"
           /\ log' = Logged(i, "initialize", a)
           /\ AcquireFailed(i, IOError("initialize"))
           /\ UNCHANGED calls
        \/ /\ a = "cancel"
           /\ log' = Logged(i, "initialize", a)
           /\ AcquireCancelled(i)
           /\ UNCHANGED calls
    /\ UNCHANGED <<tool, session, opened, nextSession>>
    /\ UNCHANGED otherVars

\* lines 84-87 (and 99-102, 109-112, 119-122, 144-147): what leaves the body,
\* [e, r]: "except Exception" turns a failure of the call or of
\* format_content into the error string; a CancelledError is not caught
BodyResult(t, a, fc) ==
    IF a = "cancel" THEN [e |-> CancelledError, r |-> PyText(<<>>)]
    ELSE IF a = "fail" THEN [e |-> NoExc, r |-> ErrorString(t, IOError("call"))]
    ELSE IF fc.ok THEN [e |-> NoExc, r |-> fc.val]
    ELSE [e |-> NoExc, r |-> ErrorString(t, TypeError)]

\* lines 85, 100, 110, 120, 145: format_content(result.content) for each response
Formatted == [n \in DOMAIN Responses |-> format_content(Responses[n])]

\* the awaited call_tool completes, the body ends and __aexit__ begins
CallReturn(i) ==
    /\ pc[i] = "call"
    /\ \E a \in Answers, n \in DOMAIN Responses :
        /\ a # "ok" => n = 1
        /\ log' = [log EXCEPT ![i] = Append(@, IF a = "ok" THEN CallOk(n) ELSE Op("call", a))]
        /\ LET b == BodyResult(tool[i], a, Formatted[n]) IN ExitScope(i, b.e, b.r)
    /\ UNCHANGED <<tool, session, opened, calls, nextSession>>
    /\ UNCHANGED otherVars

\* AsyncExitStack.aclose() (lines 66 and 71): the callback pushed last is
\* popped and awaited; an exception it raises replaces the pending one and
\* the remaining callbacks still run
CloseNext(i) ==
    /\ pc[i] \in {"acq_close", "exit_close"}
    /\ stack[StackOf(i)] # <<>>
    /\ LET stk == stack[StackOf(i)]
           res == stk[Len(stk)]
           rest == SubSeq(stk, 1, Len(stk) - 1)
       IN
       \E a \in Answers :
        /\ stack' = [stack EXCEPT ![StackOf(i)] = rest]
        /\ closed' = [closed EXCEPT ![i] = Append(@, res)]
        /\ log' = Logged(i, IF res.kind = "session" THEN "close_session"
                            ELSE "close_transport", a)
        /\ Closing(i, pc[i], rest,
                   IF a = "ok" THEN closeExc[i]
                   ELSE IF a = "fail" THEN IOError("close")
                   ELSE CancelledError,
                   cause[i], ret[i])
    /\ UNCHANGED <<tool, session, opened, calls, nextSession>>
    /\ UNCHANGED otherVars

LifeInit ==
    /\ pc = [i \in Inv |-> "idle"]
    /\ tool = [i \in Inv |-> "none"]
    /\ stack = [i \in Inv |-> <<>>]
    /\ session = [i \in Inv |-> 0]
    /\ opened = [i \in Inv |-> <<>>]
    /\ closed = [i \in Inv |-> <<>>]
    /\ log = [i \in Inv |-> <<>>]
    /\ calls = [i \in Inv |-> 0]
    /\ cause = [i \in Inv |-> NoExc]
    /\ ret = [i \in Inv |-> PyText(<<>>)]
    /\ closeExc = [i \in Inv |-> NoExc]
    /\ outcome = [i \in Inv |-> Pending]
    /\ nextSession = 0

Step(i) ==
    \/ Invoke(i)
    \/ Connect(i)
    \/ EnterSession(i)
    \/ Initialize(i)
    \/ CallReturn(i)
    \/ CloseNext(i)

(***************************************************************************)
(* format_content run block by block on the contents an upstream call may  *)
(* return.                                                                 *)
(***************************************************************************)
\* the longest content (in blocks) drawn freely from SeqBlocks
MaxBlocks == 2

\* json.dumps with the default separators, the way the upstream encodes
RECURSIVE Encode(_), EncodeElems(_, _), EncodeItems(_, _)
Encode(v) ==
    CASE v.t = "null" -> <<NullLit>>
      [] v.t = "num" -> <<NumLit(IntToText(v.n))>>
      [] v.t = "str" -> <<StrLit(v.s)>>
      [] v.t = "arr" -> <<LBrack>> \o EncodeElems(v.a, 1) \o <<RBrack>>
      [] v.t = "obj" -> <<LBrace>> \o EncodeItems(v.o, 1) \o <<RBrace>>

EncodeElems(a, j) ==
    IF j > Len(a) THEN <<>>
    ELSE (IF j > 1 THEN <<Comma, Space>> ELSE <<>>) \o Encode(a[j]) \o EncodeElems(a, j + 1)

EncodeItems(o, j) ==
    IF j > Len(o) THEN <<>>
    ELSE (IF j > 1 THEN <<Comma, Space>> ELSE <<>>)
         \o <<StrLit(o[j].k), Colon, Space>> \o Encode(o[j].v) \o EncodeItems(o, j + 1)

OptItem(key, how, v) ==
    IF how = "absent" THEN <<>>
    ELSE IF how = "null" THEN <<Item(key, JNull)>>
    ELSE <<Item(key, v)>>

\* objects with next_token and failed_regions absent, null or set
ResultObjects ==
    {JObj(<<Item("a", JNum(1))>> \o OptItem("next_token", nt, JStr("t"))
            \o OptItem("failed_regions", fr, JArr(<<JStr("x")>>)))
        : nt \in {"absent", "null", "set"}, fr \in {"absent", "null", "set"}}
    \cup {JObj(<<Item("next_token", JNull)>>), JObj(<<>>)}

NonObjects == {JStr("not-an-object"), JNull, JNum(1), JArr(<<JStr("x")>>)}

Envelope(v) == JObj(<<Item("content", JObj(<<Item("result", v)>>))>>)

PayloadValues ==
    ResultObjects
    \cup {Envelope(r) : r \in ResultObjects}
    \cup {Envelope(x) : x \in NonObjects}
    \cup {JObj(<<Item("content", x)>>) : x \in NonObjects}
    \cup {JObj(<<Item("content", JObj(<<Item("other", JObj(<<Item("a", JNum(1))>>))>>))>>),
          JObj(<<Item("result", JObj(<<Item("next_token", JNull)>>))>>),
          Envelope(Envelope(JObj(<<Item("a", JNum(1))>>))),
          JObj(<<Item("content", JObj(<<Item("result", JObj(<<Item("a", JNum(1))>>)),
                                         Item("next_token", JNull)>>)),
                 Item("failed_regions", JNull)>>),
          JArr(<<JNum(1), JNum(2)>>), JArr(<<>>), JNum(2), JStr("s"),
          JArr(<<Envelope(JObj(<<>>))>>), JArr(<<JObj(<<Item("next_token", JNull)>>)>>)}

\* payloads that are no JSON text, or JSON text not written by json.dumps
OtherTexts ==
    {<<Word("plain text")>>, <<>>, <<LBrace, StrLit("a")>>, <<NumLit("1"), Word("x")>>,
     <<Space, LBrace, StrLit("a"), Colon, NumLit("1"), Comma, StrLit("a"), Colon, NullLit,
       RBrace, Newline>>}

TextBlocks ==
    {Block("text", PyText(Encode(v))) : v \in PayloadValues}
    \cup {Block("text", PyText(x)) : x \in OtherTexts}

\* a text block without a payload, and a block that is not text
OddBlocks == {Block("text", JNull), Block("image", JNull)}

SeqBlocks ==
    OddBlocks
    \cup {Block("text", PyText(<<Word("plain text")>>)),
          Block("text", PyText(Encode(Envelope(JObj(<<Item("a", JNum(1))>>))))),
          Block("text", PyText(Encode(JNum(2))))}

RECURSIVE SeqsUpTo(_, _)
SeqsUpTo(S, n) ==
    IF n = 0 THEN {<<>>}
    ELSE LET shorter == SeqsUpTo(S, n - 1) IN
         shorter \cup {Append(q, x) : q \in shorter, x \in S}

Contents == {<<b>> : b \in TextBlocks \cup OddBlocks} \cup SeqsUpTo(SeqBlocks, MaxBlocks)

FmtIdle ==
    /\ fcContent = <<>>
    /\ fcIdx = 1
    /\ fcTexts = <<>>
    /\ fcPc = "idle"
    /\ fcResult = Raises("")

\* line 14
FmtInit ==
    /\ fcContent \in Contents
    /\ fcIdx = 1
    /\ fcTexts = <<>>
    /\ fcPc = "loop"
    /\ fcResult = Raises("")

\* lines 15-35: one iteration
FormatBlock ==
    /\ fcPc = "loop"
    /\ fcIdx <= Len(fcContent)
    /\ fcTexts' = AppendBlock(fcTexts, fcContent[fcIdx])
    /\ fcIdx' = fcIdx + 1
    /\ UNCHANGED <<fcContent, fcPc, fcResult, lifeVars, argVars>>

\* line 36
FormatReturn ==
    /\ fcPc = "loop"
    /\ fcIdx > Len(fcContent)
    /\ fcResult' = StrJoin(fcTexts)
    /\ fcPc' = IF StrJoin(fcTexts).ok THEN "returned" ELSE "raised"
    /\ UNCHANGED <<fcContent, fcIdx, fcTexts, lifeVars, argVars>>

(***************************************************************************)
(* The argument mapping of get_regional_availability.                      *)
(***************************************************************************)
\* line 126: the default of region
AWS_REGION_DEFAULT == JStr("us-east-1")

\* bool(v) of line 132
Truthy(v) ==
    CASE IsNone(v) -> FALSE
      [] IsList(v) -> v.a # <<>>
      [] IsStr(v) -> v.toks # <<>>
      [] OTHER -> TRUE

\* lines 133-141: a str is decoded; a decoded list is taken, anything else
\* (or a JSONDecodeError) wraps the original str
NormalizeFilters(filters) ==
    IF IsStr(filters)
    THEN LET r == json_loads(filters) IN
         IF r.ok /\ IsList(r.val) THEN r.val ELSE JArr(<<filters>>)
    ELSE filters

\* lines 130-142
AvailabilityArgs(resource_type, region, filters) ==
    LET args == JObj(<<Item("resource_type", resource_type), Item("region", region)>>) IN
    IF Truthy(filters) THEN DictSet(args, "filters", NormalizeFilters(filters)) ELSE args

ResourceTypes == {JStr("product"), JStr("api"), JStr("cfn")}

\* region as the caller gives it: None stands for an omitted argument
RegionInputs == {JNull, JStr("eu-west-1")}

\* filters as the caller gives it: omitted, a list, or a str
FilterInputs ==
    {JNull, JArr(<<>>), JArr(<<JStr("a")>>), JArr(<<JStr("a"), JStr("b")>>)}
    \cup {PyText(x) : x \in
            {<<>>, <<Word("abc")>>, <<LBrack, RBrack>>, <<Space, LBrack, Space, RBrack>>,
             <<LBrack, StrLit("a"), Comma, StrLit("b"), RBrack>>,
             <<LBrack, StrLit("a"), Comma>>, <<LBrack, NumLit("1"), RBrack>>,
             <<StrLit("abc")>>, <<NumLit("1")>>, <<NullLit>>,
             <<LBrace, StrLit("a"), Colon, NumLit("1"), RBrace>>, <<LBrace, RBrace>>}}

\* a call of one of the three handlers that map optional arguments: the
\* parameters of the other handlers are None
Call(tl, kw) ==
    [p \in {"tool", "resource_type", "region", "filters", "query", "topics", "url",
            "start_index", "max_length"} |->
        IF p = "tool" THEN JStr(tl) ELSE IF p \in DOMAIN kw THEN kw[p] ELSE JNull]

\* lines 81-83
SearchArgs(query, topics) ==
    LET args == JObj(<<Item("search_phrase", query)>>) IN
    IF Truthy(topics) THEN DictSet(args, "topics", topics) ELSE args

\* mutant: the optional arguments are tested for truth, not against None
ReadArgsIfTruthy(url, start_index, max_length) ==
    LET falsy(v) == IsNone(v) \/ v = JNum(0)
        a1 == JObj(<<Item("url", url)>>)
        a2 == IF falsy(start_index) THEN a1 ELSE DictSet(a1, "start_index", start_index)
    IN IF falsy(max_length) THEN a2 ELSE DictSet(a2, "max_length", max_length)

\* lines 94-98
ReadArgs(url, start_index, max_length) ==
    LET a1 == JObj(<<Item("url", url)>>)
        a2 == IF ~IsNone(start_index) THEN DictSet(a1, "start_index", start_index) ELSE a1
    IN IF ~IsNone(max_length) THEN DictSet(a2, "max_length", max_length) ELSE a2

\* topics as the caller gives it: omitted or a list
TopicInputs == {JNull, JArr(<<>>), JArr(<<JStr("general")>>),
                JArr(<<JStr("general"), JStr("cdk")>>)}

\* start_index and max_length as the caller gives them: omitted or an int
IndexInputs == {JNull, JNum(0), JNum(5)}

AvailabilityCalls ==
    {Call("get_regional_availability",
          [resource_type |-> rt, region |-> rg, filters |-> f])
        : rt \in ResourceTypes, rg \in RegionInputs, f \in FilterInputs}

SearchCalls ==
    {Call("search_documentation", [query |-> q, topics |-> tp])
        : q \in {JStr("s3 versioning"), JStr("")}, tp \in TopicInputs}

ReadCalls ==
    {Call("read_documentation", [url |-> JStr("https://docs.aws.amazon.com/s3"),
                                 start_index |-> si, max_length |-> ml])
        : si \in IndexInputs, ml \in IndexInputs}

ArgIdle ==
    /\ argIn = Call("none", <<>>)
    /\ argPc = "idle"
    /\ argOut = JObj(<<>>)

ArgInit ==
    /\ argIn \in AvailabilityCalls \cup SearchCalls \cup ReadCalls
    /\ argPc = "mapping"
    /\ argOut = JObj(<<>>)

\* lines 126-142: the parameters are bound and the argument set is built
MapAvailabilityArgs ==
    /\ argPc = "mapping"
    /\ argIn.tool = JStr("get_regional_availability")
    /\ argOut' = AvailabilityArgs(argIn.resource_type,
                                  IF IsNone(argIn.region) THEN AWS_REGION_DEFAULT
                                  ELSE argIn.region,
                                  argIn.filters)
    /\ argPc' = "mapped"
    /\ UNCHANGED <<argIn, lifeVars, fmtVars>>

\* lines 77-83
MapSearchArgs ==
    /\ argPc = "mapping"
    /\ argIn.tool = JStr("search_documentation")
    /\ argOut' = SearchArgs(argIn.query, argIn.topics)
    /\ argPc' = "mapped"
    /\ UNCHANGED <<argIn, lifeVars, fmtVars>>

\* lines 91-98
MapReadArgs ==
    /\ argPc = "mapping"
    /\ argIn.tool = JStr("read_documentation")
    /\ argOut' = ReadArgs(argIn.url, argIn.start_index, argIn.max_length)
    /\ argPc' = "mapped"
    /\ UNCHANGED <<argIn, lifeVars, fmtVars>>

(***************************************************************************)
(* The specifications.                                                     *)
(***************************************************************************)
vars == <<lifeVars, fmtVars, argVars>>

Init == LifeInit /\ FmtIdle /\ ArgIdle

Next == \E i \in Inv : Step(i)

Spec == Init /\ [][Next]_vars

\* the steps of invocation i that wait for the transport: the connect, the
\* session entry, the handshake, the call and each close
Progress(i) ==
    \/ Connect(i)
    \/ EnterSession(i)
    \/ Initialize(i)
    \/ CallReturn(i)
    \/ CloseNext(i)

\* every awaited transport step eventually completes, with success or failure
Fairness == \A i \in Inv : WF_vars(Progress(i))

SpecFair == Init /\ [][Next]_vars /\ Fairness

FmtNext == FormatBlock \/ FormatReturn

InitFmt == LifeInit /\ FmtInit /\ ArgIdle

SpecFmt == InitFmt /\ [][FmtNext]_vars

ArgNext == MapAvailabilityArgs \/ MapSearchArgs \/ MapReadArgs

InitArgs == LifeInit /\ FmtIdle /\ ArgInit

SpecArgs == InitArgs /\ [][ArgNext]_vars

(***************************************************************************)
(* Properties of the connection scope and the handlers.                    *)
(***************************************************************************)
Ended(i) == pc[i] = "done"

\* the invocation was cancelled at one of its suspension points
Cancelled(i) == \E k \in 1..Len(log[i]) : log[i][k].ans = "cancel"

Range(q) == {q[k] : k \in 1..Len(q)}

Count(q, x) == Cardinality({k \in 1..Len(q) : q[k] = x})

Reverse(q) == [k \in 1..Len(q) |-> q[Len(q) + 1 - k]]

\* the acquisition step that failed, "" when none did
FailedStep(i) ==
    IF \E k \in 1..Len(log[i]) :
          log[i][k].ans = "fail" /\ log[i][k].op \in {"connect", "session", "initialize"}
    THEN log[i][CHOOSE k \in 1..Len(log[i]) :
                    log[i][k].ans = "fail"
                    /\ log[i][k].op \in {"connect", "session", "initialize"}].op
    ELSE ""

\* C1: when an invocation that was not cancelled ends (the transport open
\* failed, the handshake failed, the call failed, normalisation failed or all
\* succeeded), every resource it opened has been closed exactly once, its
\* exit stack is empty and its session is open nowhere.
C1_ReleasedOnEveryOutcome ==
    \A i \in Inv :
        (Ended(i) /\ ~Cancelled(i)) =>
            /\ Len(closed[i]) = Len(opened[i])
            /\ \A r \in Range(opened[i]) : Count(closed[i], r) = 1
            /\ stack[StackOf(i)] = <<>>
            /\ \A k \in Inv : Session(session[i]) \notin Range(stack[k])

C1_Witness ==
    \E i \in Inv :
        /\ Ended(i) /\ ~Cancelled(i)
        /\ Len(opened[i]) = 2 /\ Len(closed[i]) = 2
        /\ FailedStep(i) = "initialize"

\* C2: every invocation that is not cancelled ends by returning a string to
\* the dispatcher, never by raising.
C2_HandlersNeverRaise ==
    \A i \in Inv : (Ended(i) /\ ~Cancelled(i)) => outcome[i].kind = "returned"

\* C3: when an invocation has ended, cancelled or not, nothing it opened is
\* left open: its exit stack has been closed.
C3_CancelledScopeReleased ==
    \A i \in Inv : Ended(i) => Len(closed[i]) = Len(opened[i])

\* C4: within an invocation the transport is opened, then the session, then
\* the handshake is made, then the call is issued, at most once, and nothing
\* is closed before the call has completed or failed.
C4_StepsOrdered ==
    \A i \in Inv :
        /\ calls[i] <= 1
        /\ calls[i] = Count(log[i], Op("call", "issued"))
        /\ calls[i] = 1 =>
              /\ Len(log[i]) >= 4
              /\ SubSeq(log[i], 1, 4) = <<Op("connect", "ok"), Op("session", "ok"),
                                          Op("initialize", "ok"), Op("call", "issued")>>
              /\ opened[i] = <<Transport, Session(session[i])>>
        /\ pc[i] = "call" => (closed[i] = <<>> /\ Len(stack[StackOf(i)]) = 2)
        /\ \A k \in 1..Len(log[i]) :
              (calls[i] = 1 /\ log[i][k].op \in {"close_session", "close_transport"}) =>
                  (k > 5 /\ log[i][5].op = "call" /\ log[i][5].ans \in Answers)

C4_Witness ==
    \E i \in Inv : Ended(i) /\ calls[i] = 1 /\ Len(closed[i]) = 2

\* C5: when the transport open or the handshake fails and the invocation is
\* not cancelled, what was opened is closed in reverse order, the scope
\* raises one McpError INTERNAL_ERROR "Connection Error: <cause>", and the
\* acquisition was attempted once.
C5_AcquisitionFailure ==
    \A i \in Inv :
        (Ended(i) /\ ~Cancelled(i) /\ FailedStep(i) # "") =>
            /\ closed[i] = Reverse(opened[i])
            /\ outcome[i] = RaisedOut(ConnectionError(IOError(FailedStep(i))))
            /\ Count(log[i], Op("connect", "ok")) + Count(log[i], Op("connect", "fail")) = 1
            /\ calls[i] = 0

\* C6: an invocation opens at most one session, the call is made on the
\* session the invocation itself opened and still holds open, and no two
\* invocations ever have the same session, released or not.
C6_OneSessionEach ==
    \A i \in Inv :
        /\ Cardinality({k \in 1..Len(opened[i]) : opened[i][k].kind = "session"}) <= 1
        /\ pc[i] \in {"initialize", "call"} =>
              /\ session[i] # 0
              /\ Session(session[i]) \in Range(stack[StackOf(i)])
              /\ Count(opened[i], Session(session[i])) = 1
        /\ \A j \in Inv \ {i} :
              /\ session[i] # 0 => session[i] # session[j]
              /\ \A r \in Range(opened[i]) :
                    r.kind = "session" => r \notin Range(opened[j]) \cup Range(stack[StackOf(j)])

C6_Witness ==
    \E i, j \in Inv :
        /\ i # j
        /\ pc[i] = "call"
        /\ Ended(j) /\ calls[j] = 1 /\ session[j] # 0

\* what an invocation's own steps read and write
Local(i) ==
    <<pc[i], tool[i], stack[StackOf(i)], session[i], opened[i], closed[i], log[i],
      calls[i], cause[i], ret[i], closeExc[i], outcome[i]>>

\* C7: a step of one invocation changes nothing of another invocation, an
\* invocation that has not ended can always take its next step whatever the
\* others do or fail to do, and two invocations of the same tool that got the
\* same answers ended the same way.
C7_NoInterference ==
    /\ [][\A i \in Inv :
            (log'[i] = log[i] /\ tool'[i] = tool[i]) => Local(i)' = Local(i)]_vars
    /\ [](\A i \in Inv : ~Ended(i) => ENABLED Step(i))
    /\ [](\A i, j \in Inv :
            (tool[i] = tool[j] /\ log[i] = log[j]) => outcome[i] = outcome[j])

C7_Witness ==
    \E i, j \in Inv :
        /\ i # j
        /\ pc[j] = "call"
        /\ Ended(i) /\ outcome[i].kind = "returned" /\ calls[i] = 1
        /\ log[i][5] = CallOk(1)

(***************************************************************************)
(* Properties of format_content and of the argument mapping.               *)
(***************************************************************************)
TextOnly(content) == SelectSeq(content, LAMBDA c : c.type = "text")

\* the text block that the j-th entry of formatted_texts was rendered from
SourceOf(j) == TextOnly(fcContent)[j]

Rendered == {j \in 1..Len(fcTexts) : j <= Len(TextOnly(fcContent))}

ParsesToObject(c) == IsStr(c.text) /\ json_loads(c.text).ok /\ IsDict(json_loads(c.text).val)

\* the object has a key content holding an object whose key result holds an object
EnvelopeApplies(v) ==
    /\ IsDict(v)
    /\ HasKey(v, "content")
    /\ IsDict(DictGet(v, "content"))
    /\ HasKey(DictGet(v, "content"), "result")
    /\ IsDict(DictGet(DictGet(v, "content"), "result"))

InnerResult(v) == DictGet(DictGet(v, "content"), "result")

WorkingObject(v) == IF EnvelopeApplies(v) THEN InnerResult(v) ELSE v

NullableKeys == {"next_token", "failed_regions"}

OtherItems(d) == SelectSeq(d.o, LAMBDA it : it.k \notin NullableKeys)

WithoutNullKeys(d) == JObj(SelectSeq(d.o, LAMBDA it : ~(it.k \in NullableKeys /\ IsNone(it.v))))

ExpectedFilters(f) ==
    IF IsStr(f)
    THEN IF f.toks = <<>> THEN JNull
         ELSE IF json_loads(f).ok /\ IsList(json_loads(f).val) THEN json_loads(f).val
         ELSE JArr(<<f>>)
    ELSE f

\* C9: resource_type and region are always in the argument set, and filters
\* is in it exactly when the normalised value is a non-empty list, with that
\* value.
C9_FiltersOnlyIfNonEmpty ==
    (argPc = "mapped" /\ argIn.tool = JStr("get_regional_availability")) =>
        /\ HasKey(argOut, "resource_type")
        /\ DictGet(argOut, "resource_type") = argIn.resource_type
        /\ HasKey(argOut, "region")
        /\ DictGet(argOut, "region") =
              (IF IsNone(argIn.region) THEN JStr("us-east-1") ELSE argIn.region)
        /\ LET norm == ExpectedFilters(argIn.filters) IN
           /\ HasKey(argOut, "filters") <=> (IsList(norm) /\ norm.a # <<>>)
           /\ HasKey(argOut, "filters") => DictGet(argOut, "filters") = norm

\* C10: a text block whose payload parses to an object is rendered from the
\* result object (less its null next_token and failed_regions) when content
\* holds an object whose result holds an object, and from the parsed outer
\* object otherwise; a content of that one block is returned as that text.
C10_EnvelopeUnwrap ==
    /\ \A j \in Rendered :
          ParsesToObject(SourceOf(j)) =>
              LET p == json_loads(SourceOf(j).text).val IN
              fcTexts[j] = json_dumps(IF EnvelopeApplies(p)
                                      THEN WithoutNullKeys(InnerResult(p)) ELSE p)
    /\ (fcPc = "returned" /\ Len(fcContent) = 1 /\ Len(fcTexts) = 1) =>
          fcResult = Returns(fcTexts[1])

C10_Witness ==
    /\ fcPc = "returned"
    /\ fcContent = <<Block("text", PyText(<<LBrace, StrLit("content"), Colon, Space, LBrace,
                                            StrLit("result"), Colon, Space, LBrace,
                                            StrLit("a"), Colon, Space, NumLit("1"),
                                            RBrace, RBrace, RBrace>>))>>
    /\ fcResult = Returns(PyText(<<LBrace, Newline, Space, Space, StrLit("a"), Colon, Space,
                                   NumLit("1"), Newline, RBrace>>))

\* every text block of the content carries a str, as a content block does
WellFormed(content) == \A k \in 1..Len(content) : content[k].type = "text" => IsStr(content[k].text)

Renderings(content) ==
    [k \in 1..Len(TextOnly(content)) |-> RenderText(TextOnly(content)[k])]

RECURSIVE Interleave(_)
Interleave(texts) ==
    IF texts = <<>> THEN <<>>
    ELSE IF Len(texts) = 1 THEN texts[1].toks
    ELSE texts[1].toks \o <<Newline>> \o Interleave(Tail(texts))

\* C11: for a content of well-formed blocks, formatted_texts holds the
\* renderings of the text blocks met so far, in input order, the output is
\* these renderings with one newline between neighbours, a block that is not
\* text adds nothing, and a content without a text block gives the empty str.
C11_JoinedInOrder ==
    WellFormed(fcContent) =>
        /\ fcPc \in {"loop", "returned"}
        /\ fcTexts = Renderings(SubSeq(fcContent, 1, fcIdx - 1))
        /\ fcPc = "returned" =>
              /\ fcResult = Returns(PyText(Interleave(Renderings(fcContent))))
              /\ TextOnly(fcContent) = <<>> => fcResult = Returns(PyText(<<>>))

C11_Witness ==
    /\ fcPc = "returned"
    /\ Len(fcContent) = 2
    /\ fcContent[1].type = "text" /\ fcContent[2].type = "text"
    /\ WellFormed(fcContent)
    /\ RenderText(fcContent[1]) # RenderText(fcContent[2])
    /\ fcResult.val.toks =
          RenderText(fcContent[1]).toks \o <<Newline>> \o RenderText(fcContent[2]).toks

\* C12: format_content returns a str and never raises, whatever the blocks:
\* a payload that is no JSON text is emitted verbatim, and a text block
\* without a payload is passed through or left out.
C12_NeverRaises ==
    /\ fcPc # "raised"
    /\ fcPc = "returned" => (fcResult.ok /\ IsStr(fcResult.val))
    /\ \A j \in Rendered :
          (IsStr(SourceOf(j).text) /\ ~json_loads(SourceOf(j).text).ok) =>
              fcTexts[j] = SourceOf(j).text

Keys(d) == {d.o[k].k : k \in 1..Len(d.o)}

\* C13: search_documentation sends query as search_phrase, and topics exactly
\* when the caller gave a non-empty list; read_documentation sends url as
\* url, and start_index and max_length exactly when the caller gave them, 0
\* included; every value is sent as given and no other key is sent.
C13_OptionalArguments ==
    /\ (argPc = "mapped" /\ argIn.tool = JStr("search_documentation")) =>
          /\ Keys(argOut) =
                {"search_phrase"}
                \cup (IF IsList(argIn.topics) /\ argIn.topics.a # <<>> THEN {"topics"} ELSE {})
          /\ DictGet(argOut, "search_phrase") = argIn.query
          /\ HasKey(argOut, "topics") => DictGet(argOut, "topics") = argIn.topics
    /\ (argPc = "mapped" /\ argIn.tool = JStr("read_documentation")) =>
          /\ Keys(argOut) =
                {"url"}
                \cup (IF IsNone(argIn.start_index) THEN {} ELSE {"start_index"})
                \cup (IF IsNone(argIn.max_length) THEN {} ELSE {"max_length"})
          /\ DictGet(argOut, "url") = argIn.url
          /\ HasKey(argOut, "start_index") => DictGet(argOut, "start_index") = argIn.start_index
          /\ HasKey(argOut, "max_length") => DictGet(argOut, "max_length") = argIn.max_length

C13_Witness ==
    /\ argPc = "mapped"
    /\ argIn.tool = JStr("read_documentation")
    /\ argIn.start_index = JNum(0)
    /\ IsNone(argIn.max_length)
    /\ Keys(argOut) = {"url", "start_index"}
    /\ DictGet(argOut, "start_index") = JNum(0)

\* C14: when an invocation that was not cancelled ends, a close that failed
\* during the release has not replaced the outcome in flight: after a failed
\* acquisition the scope raises the connection error, after a body that
\* produced a string the invocation returns that string; and a release with
\* nothing or only the transport opened closes what was opened.
C14_CloseFailureKeepsOutcome ==
    \A i \in Inv :
        (Ended(i) /\ ~Cancelled(i)) =>
            /\ FailedStep(i) # "" =>
                  outcome[i] = RaisedOut(ConnectionError(IOError(FailedStep(i))))
            /\ calls[i] = 1 => outcome[i] = Returned(ret[i])
            /\ Len(opened[i]) <= 1 => closed[i] = opened[i]

\* C15: when the acquisition succeeded and the call fails, the invocation
\* returns the handler's label followed by the failure's description, the
\* call was issued once, and the session and the transport were closed.
C15_CallFailureReturned ==
    \A i \in Inv :
        (Ended(i) /\ ~Cancelled(i) /\ Op("call", "fail") \in Range(log[i])) =>
            /\ outcome[i] = Returned(ErrorString(tool[i], IOError("call")))
            /\ calls[i] = 1
            /\ Count(log[i], Op("call", "issued")) = 1
            /\ Count(log[i], Op("call", "fail")) = 1
            /\ closed[i] = Reverse(opened[i])
            /\ Session(session[i]) \in Range(closed[i])

\* the payload of the j-th text block is JSON text
ParsesOk(c) == IsStr(c.text) /\ json_loads(c.text).ok

\* C16: what a text block with a JSON payload appends is JSON text, and
\* parsing it and rendering the value with indent 2 gives the same str.
C16_RenderingIdempotent ==
    \A j \in Rendered :
        ParsesOk(SourceOf(j)) =>
            /\ IsStr(fcTexts[j])
            /\ json_loads(fcTexts[j]).ok
            /\ json_dumps(json_loads(fcTexts[j]).val) = fcTexts[j]

C16_Witness ==
    /\ fcPc = "returned"
    /\ Len(fcContent) = 1
    /\ \E j \in Rendered :
          /\ ParsesOk(SourceOf(j))
          /\ json_loads(SourceOf(j).text).val =
                JObj(<<Item("a", JNum(1)), Item("next_token", JStr("t")),
                       Item("failed_regions", JArr(<<JStr("x")>>))>>)
          /\ fcTexts[j] # SourceOf(j).text
          /\ json_dumps(json_loads(fcTexts[j]).val) = fcTexts[j]
          /\ fcResult = Returns(fcTexts[j])

\* C17: a text block whose payload parses to a value that is not an object
\* appends the indent-2 rendering of that very value: nothing inside it is
\* unwrapped and no key inside it is removed.
C17_NonObjectRenderedAsParsed ==
    \A j \in Rendered :
        (ParsesOk(SourceOf(j)) /\ ~IsDict(json_loads(SourceOf(j).text).val)) =>
            /\ fcTexts[j] = json_dumps(json_loads(SourceOf(j).text).val)
            /\ json_loads(fcTexts[j]).ok
            /\ json_loads(fcTexts[j]).val = json_loads(SourceOf(j).text).val

C17_Witness ==
    /\ fcPc = "returned"
    /\ fcContent = <<Block("text", PyText(<<LBrack, LBrace, StrLit("next_token"), Colon,
                                            Space, NullLit, RBrace, RBrack>>))>>
    /\ fcResult = Returns(PyText(<<LBrack, Newline, Space, Space, LBrace, Newline,
                                   Space, Space, Space, Space, StrLit("next_token"), Colon,
                                   Space, NullLit, Newline, Space, Space, RBrace, Newline,
                                   RBrack>>))

\* the result object of the envelope is an envelope itself
DoubleEnvelope(v) == EnvelopeApplies(v) /\ EnvelopeApplies(InnerResult(v))

\* C18: when the result object of the envelope is itself an envelope, the
\* block appends the rendering of the first-level result object, content
\* key included, and format_content run on that output gives the rendering
\* of the second-level result object, a different str.
C18_UnwrapOnce ==
    \A j \in Rendered :
        (ParsesOk(SourceOf(j)) /\ DoubleEnvelope(json_loads(SourceOf(j).text).val)) =>
            LET p == json_loads(SourceOf(j).text).val
                again == format_content(<<Block("text", fcTexts[j])>>)
            IN /\ fcTexts[j] = json_dumps(WithoutNullKeys(InnerResult(p)))
               /\ EnvelopeApplies(json_loads(fcTexts[j]).val)
               /\ again = Returns(json_dumps(WithoutNullKeys(InnerResult(InnerResult(p)))))
               /\ again # Returns(fcTexts[j])

C18_Witness ==
    /\ fcPc = "returned"
    /\ Len(fcContent) = 1
    /\ ParsesOk(fcContent[1])
    /\ json_loads(fcContent[1].text).val = Envelope(Envelope(JObj(<<Item("a", JNum(1))>>)))
    /\ fcResult.ok
    /\ json_loads(fcResult.val).val = Envelope(JObj(<<Item("a", JNum(1))>>))

\* how many times invocation i awaited the operation op
Awaited(i, op) == Cardinality({k \in 1..Len(log[i]) : log[i][k].op = op})

\* C19: an invocation that was started ends, returning a str or raising, and
\* at every moment it has awaited at most one connect, one session entry,
\* one handshake, one call and one close of each resource it opened.
C19_Terminates ==
    /\ \A i \in Inv : (pc[i] = "connect") ~> (Ended(i) /\ outcome[i].kind \in {"returned", "raised"})
    /\ [](\A i \in Inv :
            /\ Awaited(i, "connect") <= 1
            /\ Awaited(i, "session") <= 1
            /\ Awaited(i, "initialize") <= 1
            /\ Count(log[i], Op("call", "issued")) <= 1
            /\ Awaited(i, "call") <= 2
            /\ calls[i] <= 1
            /\ Awaited(i, "close_session") + Awaited(i, "close_transport") = Len(closed[i])
            /\ \A r \in Range(closed[i]) : Count(closed[i], r) = 1 /\ Count(opened[i], r) = 1)

C19_Witness ==
    \E i, j \in Inv :
        /\ Ended(i) /\ outcome[i].kind = "returned" /\ Len(log[i]) = 7
        /\ Ended(j) /\ outcome[j].kind = "raised" /\ Awaited(j, "connect") = 1
        /\ Op("initialize", "fail") \in Range(log[j]) /\ Len(closed[j]) = 2

====
